---- MODULE Spec2Model ----
(***************************************************************************)
(* The knowledge-graph view of the note manager (ClusterGraph, src/App.tsx *)
(* lines 701-999): the graph data synchronizer (updateGraphData), the      *)
(* start of the d3 force simulation, its tick, the drag gesture handlers   *)
(* and the click handler.                                                  *)
(*                                                                         *)
(* JavaScript values: a string-valued field that is undefined holds        *)
(* Undefined, a null reference holds Null; an optional number is <<>>      *)
(* when unset and <<v>> when it holds v.                                   *)
(***************************************************************************)
EXTENDS Integers, Sequences, FiniteSets, TLC

VARIABLES
    clusters,        \* the clusters prop of the last render
    onNoteSelect,    \* the onNoteSelect prop of the last render
    onNodeReparent,  \* the onNodeReparent prop of the last render (Undefined: none)
    onReparentRef,   \* onReparentRef.current
    closure,         \* the props seen by the handlers bound by the last effect run
    nodesRef,        \* nodesRef.current: the live node array
    linksRef,        \* linksRef.current: the live link array
    built,           \* what updateGraphData stored in the step just taken, before
                     \* d3 touched the objects (NoBuild when the step did not call it)
    simulation,      \* the simulation the bound handlers close over
    drag,            \* the gesture in progress and its subject d
    hoverTargetRef,  \* hoverTargetRef.current
    highlight,       \* indexes of the circles drawn with the highlight stroke
    reparentCalls,   \* calls of the re-parent callback made by the step just taken
    selectCalls,     \* calls of the selection callback made by the step just taken
    candidates,      \* history: the clusters in reach at the last pointer-move of
                     \* the last gesture started, in the order of the node array
    viewport,        \* clientWidth and clientHeight of the container
    transform,       \* the zoom transform applied to the main group g
    orphans,         \* simulations of earlier generations that still tick and
                     \* that no cleanup is left to stop
    handled,         \* the click, pointer-move, pointer-up or zoom event handled by
                     \* the step just taken (<<>> when the step handled none of them)
    app,             \* the state of the App component (useState, src/App.tsx
                     \* 203-216) and the requests it awaits
    service,         \* the search service: semanticCache, the model requests in
                     \* flight and what the last search that ended returned
    worker           \* the service worker: its cache and, as history, the last
                     \* response with status 200 it served for each request

vars == <<clusters, onNoteSelect, onNodeReparent, onReparentRef, closure, nodesRef,
          linksRef, built, simulation, drag, hoverTargetRef, highlight,
          reparentCalls, selectCalls, candidates, viewport, transform, orphans,
          handled, app, service, worker>>

\* the state outside the graph view, which no effect or handler of the view
\* reads or writes
outside == <<app, service, worker>>

Undefined == "undefined"
Null == "null"
None == <<>>
Some(v) == <<v>>

\* (d.x || 0)
\* the values JavaScript takes for false among those of the model
Truthy(v) == v \notin {Undefined, Null, ""}

OrZero(o) == IF o = None THEN 0 ELSE o[1]

Range(s) == {s[i] : i \in 1..Len(s)}

RECURSIVE Flatten(_)
Flatten(ss) == IF ss = <<>> THEN <<>> ELSE Head(ss) \o Flatten(Tail(ss))

(***************************************************************************)
(* Input trees.  A tree is a sequence of clusters, each with an id, a name *)
(* and either no children list (children = Undefined is modelled by        *)
(* hasChildren = FALSE) or a sequence of notes with id, name and noteId.   *)
(* Trees are enumerated as flat item sequences: a note item belongs to the *)
(* nearest cluster item before it.  Names and noteIds are fixed by the     *)
(* item's place in the tree, so that every item is told apart by them;     *)
(* ids are free, so that they may collide with each other and with 'root'. *)
(***************************************************************************)
MaxItems == 3
Ids == {"root", "a", "b"}
GroupIds == {"root", "a"}
GroupNames == <<"AI", "Cooking", "Travel", "Music", "Misc">>
LeafNames == <<"memo", "recipe", "ticket", "score", "todo">>
NoteIds == <<"k1", "k2", "k3", "k4", "k5">>

Items(groupIds, leafIds, groupFlags, leafFlags) ==
    [kind : {"cluster"}, id : groupIds, flag : groupFlags]
        \cup [kind : {"note"}, id : leafIds, flag : leafFlags]

\* the number of items of kind k among the first n of s
CountKind(s, n, k) == Cardinality({i \in 1..n : s[i].kind = k})

WellFormed(s) ==
    /\ Len(s) > 0 => s[1].kind = "cluster"
    /\ \A i \in 1..Len(s) :
          (s[i].kind = "cluster" /\ ~s[i].flag)
              => (i = Len(s) \/ s[i + 1].kind = "cluster")

\* the notes listed under the cluster item at place p
ChildrenAt(s, p) ==
    LET last == CHOOSE q \in p..Len(s) :
                    /\ \A j \in (p + 1)..q : s[j].kind = "note"
                    /\ (q = Len(s) \/ s[q + 1].kind = "cluster")
    IN  [j \in 1..(last - p) |->
            LET it == s[p + j]
                n == CountKind(s, p + j, "note")
            IN  [id |-> it.id, name |-> LeafNames[n], type |-> "note",
                 noteId |-> IF it.flag THEN NoteIds[n] ELSE Undefined]]

Nest(s) ==
    LET places == {p \in 1..Len(s) : s[p].kind = "cluster"}
        place(k) == CHOOSE p \in places : CountKind(s, p, "cluster") = k
    IN  [k \in 1..Cardinality(places) |->
            [id |-> s[place(k)].id, name |-> GroupNames[k], type |-> "cluster",
             hasChildren |-> s[place(k)].flag,
             children |-> ChildrenAt(s, place(k))]]

TreesOf(maxItems, groupIds, leafIds, groupFlags, leafFlags) ==
    {Nest(s) : s \in {t \in UNION {[1..n -> Items(groupIds, leafIds, groupFlags, leafFlags)] :
                                        n \in 0..maxItems} : WellFormed(t)}}

SyncTrees == TreesOf(MaxItems, GroupIds, Ids, {TRUE}, {TRUE})

NumGroups(tree) == Len(tree)
NumLeaves(tree) == Len(Flatten([k \in 1..Len(tree) |-> tree[k].children]))

(***************************************************************************)
(* updateGraphData                                                         *)
(***************************************************************************)
rootId == "root"

NewNode(id, name, type, noteId, r, originalClusterId) ==
    [id |-> id, name |-> name, type |-> type, noteId |-> noteId, r |-> r,
     originalClusterId |-> originalClusterId,
     x |-> None, y |-> None, vx |-> None, vy |-> None, fx |-> None, fy |-> None]

RootNode == NewNode(rootId, "Knowledge Base", "root", Undefined, 35, Undefined)

\* Variant of ClusterNodeOf that derives the kind from the id, as a builder
\* keyed by id would; C6 must tell it from the code.
ClusterNodeKindById(cluster) ==
    NewNode(cluster.id, cluster.name, IF cluster.id = rootId THEN "root" ELSE "cluster",
            Undefined, 25, Undefined)

ClusterNodeOf(cluster) == NewNode(cluster.id, cluster.name, "cluster", Undefined, 25, Undefined)

\* Variant of NoteNodeOf that records the note's own id as its origin; C9 must
\* tell it from the code.
NoteNodeOfOwnId(cluster, note) ==
    NewNode(note.id, note.name, "note", note.noteId, 12, note.id)

NoteNodeOf(cluster, note) ==
    NewNode(note.id, note.name, "note", note.noteId, 12, cluster.id)

\* Variant of ClusterNodes that pushes no note nodes while ClusterLinks still
\* links them; C8 must tell it from the code.
ClusterNodesWithoutNotes(cluster) == <<ClusterNodeOf(cluster)>>

\* the nodes one cluster pushes: itself, then its notes when it has a children list
ClusterNodes(cluster) ==
    <<ClusterNodeOf(cluster)>> \o
        (IF cluster.hasChildren
            THEN [j \in 1..Len(cluster.children) |-> NoteNodeOf(cluster, cluster.children[j])]
            ELSE <<>>)

\* Variant of ClusterLinks that links every note to the root instead of to its
\* cluster; C7 must tell it from the code.
ClusterLinksFromRoot(cluster) ==
    <<[source |-> rootId, target |-> cluster.id]>> \o
        (IF cluster.hasChildren
            THEN [j \in 1..Len(cluster.children) |->
                     [source |-> rootId, target |-> cluster.children[j].id]]
            ELSE <<>>)

ClusterLinks(cluster) ==
    <<[source |-> rootId, target |-> cluster.id]>> \o
        (IF cluster.hasChildren
            THEN [j \in 1..Len(cluster.children) |->
                     [source |-> cluster.id, target |-> cluster.children[j].id]]
            ELSE <<>>)

\* Variant of NewNodes that pushes no root node while ClusterLinks still links
\* the clusters to it; C21 must tell it from the code.
NewNodesWithoutRoot(tree) == Flatten([k \in 1..Len(tree) |-> ClusterNodes(tree[k])])

NewNodes(tree) == <<RootNode>> \o Flatten([k \in 1..Len(tree) |-> ClusterNodes(tree[k])])

NewLinks(tree) == Flatten([k \in 1..Len(tree) |-> ClusterLinks(tree[k])])

\* Variant of MapGet in which the first node with an id keeps its place in
\* the lookup; C23 must tell it from the code.
MapGetFirst(nodes, id) ==
    LET hits == {i \in 1..Len(nodes) : nodes[i].id = id}
    IN  IF hits = {} THEN 0 ELSE CHOOSE i \in hits : \A j \in hits : i <= j

\* new Map(nodes.map(d => [d.id, d])).get(id): the last node with that id, 0 if none
MapGet(nodes, id) ==
    LET hits == {i \in 1..Len(nodes) : nodes[i].id = id}
    IN  IF hits = {} THEN 0 ELSE CHOOSE i \in hits : \A j \in hits : j <= i

\* Variant of MergeNode that also carries the pin of the old node over; C34
\* must tell it from the code.
MergeNodeWithPins(old, d) ==
    [d EXCEPT !.x = old.x, !.y = old.y, !.vx = old.vx, !.vy = old.vy,
              !.fx = old.fx, !.fy = old.fy]

\* { ...n, x: old.x, y: old.y, vx: old.vx, vy: old.vy }
MergeNode(old, d) ==
    [d EXCEPT !.x = old.x, !.y = old.y, !.vx = old.vx, !.vy = old.vy]

MergedNodes(existing, newNodes) ==
    [i \in 1..Len(newNodes) |->
        LET old == MapGet(existing, newNodes[i].id)
        IN  IF old # 0 THEN MergeNode(existing[old], newNodes[i]) ELSE newNodes[i]]

updateGraphData(tree, existing) ==
    [nodes |-> MergedNodes(existing, NewNodes(tree)), links |-> NewLinks(tree)]

(***************************************************************************)
(* d3.forceSimulation(nodes) and d3.forceLink(links).id(d => d.id)          *)
(***************************************************************************)
\* initializeNodes: a node without x or y is placed on the phyllotaxis spiral
\* around the origin (radius 10 * sqrt(0.5 + i)); on the model's grid that is
\* the origin.  A node without vx or vy gets velocity 0.
InitialX(i) == 0
InitialY(i) == 0

initializeNode(node, i) ==
    LET pinned == [node EXCEPT !.x = IF node.fx # None THEN node.fx ELSE node.x,
                               !.y = IF node.fy # None THEN node.fy ELSE node.y]
        placed == IF pinned.x = None \/ pinned.y = None
                     THEN [pinned EXCEPT !.x = Some(InitialX(i)), !.y = Some(InitialY(i))]
                     ELSE pinned
    IN  IF placed.vx = None \/ placed.vy = None
           THEN [placed EXCEPT !.vx = Some(0), !.vy = Some(0)]
           ELSE placed

initializeNodes(nodes) == [i \in 1..Len(nodes) |-> initializeNode(nodes[i], i)]

\* forceLink's initialize: each endpoint id is replaced by the node object that
\* nodeById (a Map over the node array) holds for it; 0 stands for d3's
\* "node not found" error.
initializeLinks(nodes, links) ==
    [i \in 1..Len(links) |->
        [source |-> MapGet(nodes, links[i].source),
         target |-> MapGet(nodes, links[i].target)]]

\* the links at which forceLink's initialize throws "node not found"
Thrown(links) == {i \in 1..Len(links) : links[i].source = 0 \/ links[i].target = 0}

\* .distance(d => d.source.type === 'root' ? 120 : 60)
LinkDistance(nodes, link) == IF nodes[link.source].type = "root" THEN 120 ELSE 60

NoBuild == [nodes |-> <<>>, links |-> <<>>]

NoSimulation ==
    [created |-> FALSE, running |-> FALSE, alpha |-> 0, alphaTarget |-> 0,
     width |-> 0, height |-> 0]

\* d3.zoomIdentity; the scale k is held in thousandths
zoomIdentity == [k |-> 1000, x |-> 0, y |-> 0]

Idle == [phase |-> "idle", idx |-> 0, stale |-> <<>>]

\* d, the datum of the dragged element: an element of the live node array, or
\* an object of an earlier generation when a rebuild replaced the array
\* while the gesture was in progress
D == IF drag.stale # <<>> THEN drag.stale[1] ELSE nodesRef[drag.idx]

(***************************************************************************)
(* useEffect(..., [clusters]): the cleanup of the previous run, then       *)
(* the run for the new clusters prop.                                      *)
(***************************************************************************)
\* The cleanup of the previous run of the effect, as it leaves the simulation
\* that run created: the run returned a cleanup only if it got past the early
\* return at its top, that is, if its clusters were not empty.
Cleanup ==
    IF Len(clusters) > 0 THEN [simulation EXCEPT !.running = FALSE] ELSE simulation

SetClusters(tree) ==
    /\ UNCHANGED outside
    /\ clusters' = tree
    /\ reparentCalls' = <<>>
    /\ selectCalls' = <<>>
    /\ handled' = <<>>
    /\ UNCHANGED <<onNoteSelect, onNodeReparent, onReparentRef, hoverTargetRef, candidates,
                   viewport>>
    /\ IF Len(tree) = 0
          THEN /\ simulation' = Cleanup
               /\ built' = NoBuild
               /\ UNCHANGED <<closure, nodesRef, linksRef, drag, highlight, transform,
                              orphans>>
          ELSE LET data == updateGraphData(tree, nodesRef)
                   started == initializeNodes(data.nodes)
               IN  /\ built' = data
                   /\ nodesRef' = started
                   /\ linksRef' = initializeLinks(started, data.links)
                   /\ simulation' = [created |-> TRUE, running |-> TRUE, alpha |-> 10,
                                      alphaTarget |-> 0,
                                      width |-> viewport.width, height |-> viewport.height]
                   /\ orphans' = IF Cleanup.running THEN orphans + 1 ELSE orphans
                   /\ transform' = zoomIdentity
                   /\ closure' = [onNoteSelect |-> onNoteSelect,
                                   onNodeReparent |-> onNodeReparent]
                   /\ highlight' = {}
                   /\ drag' = IF drag.phase = "dragging" /\ drag.stale = <<>>
                                 THEN [drag EXCEPT !.stale = <<nodesRef[drag.idx]>>]
                                 ELSE drag

(***************************************************************************)
(* One step of the running simulation's timer.  The forces are not         *)
(* computed: the tick moves every node that is not pinned to the physical  *)
(* state the layout f gives it, and puts a pinned node on its pin with     *)
(* velocity 0.  alpha and alphaTarget are held in tenths.  The steps       *)
(* sample the motion, and so they sample alpha, which d3 moves towards     *)
(* alphaTarget by alpha += (alphaTarget - alpha) * alphaDecay: from 1 it   *)
(* has come down to 0.3 at one sample and has come to alphaTarget,         *)
(* as closely as alphaMin tells apart, at the next.  The timer stops       *)
(* after the tick that leaves alpha below alphaMin.                        *)
(***************************************************************************)
alphaMin == 1

\* Variant of AlphaAfter in which alpha decays to 0 whatever alphaTarget is;
\* C30 must tell it from the code.
AlphaDecaysToZero(alpha, alphaTarget) == IF alpha > 3 THEN 3 ELSE 0

AlphaAfter(alpha, alphaTarget) == IF alpha > 3 THEN 3 ELSE alphaTarget

\* step(): tick, then stop the timer if alpha < alphaMin
Stepped(sim) ==
    LET alpha == AlphaAfter(sim.alpha, sim.alphaTarget)
    IN  [sim EXCEPT !.alpha = alpha, !.running = ~(alpha < alphaMin)]

\* Variant of TickNode that moves a pinned node like any other; C28 must tell
\* it from the code.
TickNodeFree(node, p) ==
    [node EXCEPT !.x = Some(p.x), !.vx = Some(p.vx), !.y = Some(p.y), !.vy = Some(p.vy)]

TickNode(node, p) ==
    [node EXCEPT !.x = IF node.fx = None THEN Some(p.x) ELSE node.fx,
                 !.vx = IF node.fx = None THEN Some(p.vx) ELSE Some(0),
                 !.y = IF node.fy = None THEN Some(p.y) ELSE node.fy,
                 !.vy = IF node.fy = None THEN Some(p.vy) ELSE Some(0)]

Tick(f) ==
    /\ UNCHANGED outside
    /\ simulation.running
    /\ nodesRef' = [i \in 1..Len(nodesRef) |-> TickNode(nodesRef[i], f[i])]
    /\ simulation' = Stepped(simulation)
    /\ built' = NoBuild
    /\ reparentCalls' = <<>>
    /\ selectCalls' = <<>>
    /\ handled' = <<>>
    /\ UNCHANGED <<clusters, onNoteSelect, onNodeReparent, onReparentRef, closure,
                   linksRef, drag, hoverTargetRef, highlight, candidates,
                   viewport, transform, orphans>>

(***************************************************************************)
(* useEffect(..., [onNodeReparent]) and a render with a new onNoteSelect   *)
(***************************************************************************)
SetOnNodeReparent(cb) ==
    /\ UNCHANGED outside
    /\ cb # onNodeReparent
    /\ onNodeReparent' = cb
    /\ onReparentRef' = cb
    /\ built' = NoBuild
    /\ reparentCalls' = <<>>
    /\ selectCalls' = <<>>
    /\ handled' = <<>>
    /\ UNCHANGED <<clusters, onNoteSelect, closure, nodesRef, linksRef, simulation,
                   drag, hoverTargetRef, highlight, candidates,
                   viewport, transform, orphans>>

\* the effect that binds the handlers depends on [clusters] only: it does not
\* run again, and the bound handlers keep the props of their render
SetOnNoteSelect(cb) ==
    /\ UNCHANGED outside
    /\ cb # onNoteSelect
    /\ onNoteSelect' = cb
    /\ built' = NoBuild
    /\ reparentCalls' = <<>>
    /\ selectCalls' = <<>>
    /\ handled' = <<>>
    /\ UNCHANGED <<clusters, onNodeReparent, onReparentRef, closure, nodesRef,
                   linksRef, simulation, drag, hoverTargetRef, highlight, candidates,
                   viewport, transform, orphans>>

(***************************************************************************)
(* node.on("click")                                                        *)
(***************************************************************************)
ClickCallback == closure.onNoteSelect

\* Variant of Selectable that takes every note, with or without noteId; C20
\* must tell it from the code.
AnyNote(d) == d.type = "note"

\* if (d.type === 'note' && d.noteId)
Selectable(d) == d.type = "note" /\ Truthy(d.noteId)

Click(i) ==
    /\ UNCHANGED outside
    /\ simulation.created
    /\ drag.phase = "idle"
    /\ i \in 1..Len(nodesRef)
    /\ handled' = <<[type |-> "click", idx |-> i]>>
    /\ selectCalls' = IF Selectable(nodesRef[i])
                         THEN <<[callback |-> ClickCallback, noteId |-> nodesRef[i].noteId]>>
                         ELSE <<>>
    /\ built' = NoBuild
    /\ reparentCalls' = <<>>
    /\ UNCHANGED <<clusters, onNoteSelect, onNodeReparent, onReparentRef, closure,
                   nodesRef, linksRef, simulation, drag, hoverTargetRef, highlight,
                   candidates,
                   viewport, transform, orphans>>

(***************************************************************************)
(* dragBehavior.  One pointer: a gesture starts when none is in progress,  *)
(* so event.active is 0 at its start and at its end.                       *)
(***************************************************************************)
\* Variant of SetPin that keeps the pin's second coordinate where the start
\* of the gesture put it; C27 must tell it from the code.
SetPinAcross(fx, fy) ==
    IF drag.stale # <<>>
       THEN /\ drag' = [drag EXCEPT !.stale = <<[D EXCEPT !.fx = fx]>>]
            /\ UNCHANGED nodesRef
       ELSE /\ nodesRef' = [nodesRef EXCEPT ![drag.idx] = [D EXCEPT !.fx = fx]]
            /\ UNCHANGED drag

\* d.fx = ..., d.fy = ... on the subject of the gesture
SetPin(fx, fy) ==
    IF drag.stale # <<>>
       THEN /\ drag' = [drag EXCEPT !.stale = <<[D EXCEPT !.fx = fx, !.fy = fy]>>]
            /\ UNCHANGED nodesRef
       ELSE /\ nodesRef' = [nodesRef EXCEPT ![drag.idx] = [D EXCEPT !.fx = fx, !.fy = fy]]
            /\ UNCHANGED drag

DragStart(i) ==
    /\ UNCHANGED outside
    /\ simulation.created
    /\ drag.phase = "idle"
    /\ i \in 1..Len(nodesRef)
    /\ simulation' = [simulation EXCEPT !.alphaTarget = 3, !.running = TRUE]
    /\ nodesRef' = [nodesRef EXCEPT ![i] = [@ EXCEPT !.fx = nodesRef[i].x, !.fy = nodesRef[i].y]]
    /\ drag' = [phase |-> "dragging", idx |-> i, stale |-> <<>>]
    /\ hoverTargetRef' = Null
    /\ candidates' = <<>>
    /\ built' = NoBuild
    /\ reparentCalls' = <<>>
    /\ selectCalls' = <<>>
    /\ handled' = <<>>
    /\ UNCHANGED <<clusters, onNoteSelect, onNodeReparent, onReparentRef, closure,
                   linksRef, highlight,
                   viewport, transform, orphans>>

minDistance == 50

\* Variant of Closer that also takes a node at the limit itself; C24 must
\* tell it from the code.
CloserOrOn(dx, dy, limit) == dx * dx + dy * dy <= limit * limit

\* dist < limit for dist = Math.sqrt(dx*dx + dy*dy): on integers the square
\* root is exact at the limit, so the squares compare alike
Closer(dx, dy, limit) == dx * dx + dy * dy < limit * limit

\* Variant of Hit that measures from the pin of the dragged node, that is, from
\* the pointer, where there is one; C32 must tell it from the code.
HitAtPointer(d, other) ==
    /\ other.type = "cluster"
    /\ other.id # d.originalClusterId
    /\ Closer((IF d.fx = None THEN OrZero(d.x) ELSE d.fx[1]) - OrZero(other.x),
              (IF d.fy = None THEN OrZero(d.y) ELSE d.fy[1]) - OrZero(other.y),
              minDistance + other.r)

\* the test the scan applies to one node of the live array
Hit(d, other) ==
    /\ other.type = "cluster"
    /\ other.id # d.originalClusterId
    /\ Closer(OrZero(d.x) - OrZero(other.x), OrZero(d.y) - OrZero(other.y),
              minDistance + other.r)

\* Variant of Scan that keeps the first cluster in reach instead of the last;
\* C1 must tell it from the code.
FirstHit(d, nodes, n) ==
    LET hits == {i \in 1..n : Hit(d, nodes[i])}
    IN  IF hits = {} THEN Null
        ELSE nodes[CHOOSE i \in hits : \A j \in hits : i <= j].id

\* Variant of Scan that keeps the cluster in reach nearest to d, the later
\* one of two at the same distance; C25 must tell it from the code.
NearestHit(d, nodes, n) ==
    LET hits == {i \in 1..n : Hit(d, nodes[i])}
        far(i) == (OrZero(d.x) - OrZero(nodes[i].x)) * (OrZero(d.x) - OrZero(nodes[i].x))
                      + (OrZero(d.y) - OrZero(nodes[i].y)) * (OrZero(d.y) - OrZero(nodes[i].y))
    IN  IF hits = {} THEN Null
        ELSE nodes[CHOOSE i \in hits :
                      \A j \in hits : far(i) < far(j) \/ (far(i) = far(j) /\ j <= i)].id

\* nodesRef.current.forEach(other => ...): foundClusterId after the first n nodes
RECURSIVE Scan(_, _, _)
Scan(d, nodes, n) ==
    IF n = 0 THEN Null
    ELSE IF Hit(d, nodes[n]) THEN nodes[n].id
    ELSE Scan(d, nodes, n - 1)

\* svg.select('#circle-' + id): the first circle of the document with that id
FirstWithId(nodes, id) ==
    LET hits == {i \in 1..Len(nodes) : nodes[i].id = id}
    IN  IF hits = {} THEN 0 ELSE CHOOSE i \in hits : \A j \in hits : i <= j

\* The clusters in reach of the dragged note d: the nodes of type cluster,
\* other than the one d was listed under, at a distance from d below 50 plus
\* their radius, as [id, name] in the order of the node array.
InReach(d, nodes) ==
    LET q == {i \in 1..Len(nodes) :
                 /\ nodes[i].type = "cluster"
                 /\ nodes[i].id # d.originalClusterId
                 /\ (OrZero(d.x) - OrZero(nodes[i].x)) * (OrZero(d.x) - OrZero(nodes[i].x))
                      + (OrZero(d.y) - OrZero(nodes[i].y)) * (OrZero(d.y) - OrZero(nodes[i].y))
                        < (50 + nodes[i].r) * (50 + nodes[i].r)}
        nth(k) == CHOOSE i \in q : Cardinality({j \in q : j < i}) = k - 1
    IN  [k \in 1..Cardinality(q) |-> [id |-> nodes[nth(k)].id, name |-> nodes[nth(k)].name]]

\* Variant of LooksForTarget that lets every dragged node look for a target;
\* C2 must tell it from the code.
AnyLooksForTarget(d) == d.type \in {"root", "cluster", "note"}

\* if (d.type === 'note') in the drag handler
LooksForTarget(d) == d.type = "note"

DragMove(p) ==
    /\ UNCHANGED outside
    /\ drag.phase = "dragging"
    /\ SetPin(Some(p.x), Some(p.y))
    /\ candidates' = IF D.type = "note" THEN InReach(D, nodesRef) ELSE <<>>
    /\ IF LooksForTarget(D)
          THEN LET foundClusterId == Scan(D, nodesRef, Len(nodesRef))
               IN  /\ highlight' = IF Truthy(foundClusterId)
                                      THEN {FirstWithId(nodesRef, foundClusterId)}
                                      ELSE {}
                   /\ hoverTargetRef' = foundClusterId
          ELSE UNCHANGED <<highlight, hoverTargetRef>>
    /\ built' = NoBuild
    /\ reparentCalls' = <<>>
    /\ selectCalls' = <<>>
    /\ handled' = <<[type |-> "move", idx |-> IF drag.stale = <<>> THEN drag.idx ELSE 0,
                      x |-> p.x, y |-> p.y]>>
    /\ UNCHANGED <<clusters, onNoteSelect, onNodeReparent, onReparentRef, closure,
                   linksRef, simulation,
                   viewport, transform, orphans>>

\* nodesRef.current.find(n => n.id === targetId)
Find(nodes, targetId) == FirstWithId(nodes, targetId)

\* Variant of EndCallback that uses the prop of the render whose effect bound
\* the handlers; C3 must tell it from the code.
CapturedCallback == closure.onNodeReparent

\* Variant of EndCallback that falls back on a default handler when none is
\* registered; C16 must tell it from the code.
FallbackCallback == IF Truthy(onReparentRef) THEN onReparentRef ELSE "r0"

\* the callback the end handler invokes
EndCallback == onReparentRef

\* Variant of Unpinned that also moves a released note under the cluster it
\* was dropped on; C14 must tell it from the code.
UnpinnedUnderTarget(d) ==
    [d EXCEPT !.fx = None, !.fy = None,
              !.originalClusterId = IF d.type = "note" /\ Truthy(hoverTargetRef)
                                       THEN hoverTargetRef ELSE @]

\* Variant of Unpinned that releases the node on one axis only; C18 must tell
\* it from the code.
UnpinnedAcross(d) == [d EXCEPT !.fx = None]

\* d.fx = null; d.fy = null
Unpinned(d) == [d EXCEPT !.fx = None, !.fy = None]

DragEnd ==
    /\ UNCHANGED outside
    /\ drag.phase = "dragging"
    /\ handled' = <<[type |-> "end", idx |-> IF drag.stale = <<>> THEN drag.idx ELSE 0]>>
    /\ simulation' = IF drag.stale = <<>>
                        THEN [simulation EXCEPT !.alphaTarget = 0]
                        ELSE simulation
    /\ IF drag.stale # <<>>
          THEN UNCHANGED nodesRef
          ELSE nodesRef' = [nodesRef EXCEPT ![drag.idx] = Unpinned(D)]
    /\ drag' = Idle
    /\ highlight' = {}
    /\ LET targetId == hoverTargetRef
           targetCluster == Find(nodesRef, targetId)
       IN  reparentCalls' =
               IF /\ D.type = "note"
                  /\ Truthy(targetId)
                  /\ Truthy(EndCallback)
                  /\ targetCluster # 0
                  /\ Truthy(D.noteId)
                  THEN <<[callback |-> EndCallback, noteId |-> D.noteId,
                          id |-> nodesRef[targetCluster].id,
                          name |-> nodesRef[targetCluster].name]>>
                  ELSE <<>>
    /\ hoverTargetRef' = Null
    /\ built' = NoBuild
    /\ selectCalls' = <<>>
    /\ UNCHANGED <<clusters, onNoteSelect, onNodeReparent, onReparentRef, closure, linksRef,
                   candidates,
                   viewport, transform, orphans>>

(***************************************************************************)
(* d3.zoom().scaleExtent([0.1, 4]).on("zoom", ...) on the svg, and the      *)
(* container.  The scale is held in thousandths and a product is rounded   *)
(* down to a thousandth.  A wheel or pinch input multiplies the scale by   *)
(* the factor f.num / f.den with the pointer over the scene's origin,      *)
(* which leaves the translation as it is; a pan moves the translation.     *)
(***************************************************************************)
ScaleMin == 100

ScaleMax == 4000

\* Variant of Clamp that lets every scale through; C12 must tell it from the
\* code.
Unclamped(k) == k

\* Math.max(scaleExtent[0], Math.min(scaleExtent[1], k))
Clamp(k) == IF k < ScaleMin THEN ScaleMin ELSE IF k > ScaleMax THEN ScaleMax ELSE k

\* Variant of Zoomed that applies the transform to the data instead of to the
\* group; C13 must tell it from the code.
ZoomedData(nodes, t) ==
    [i \in 1..Len(nodes) |->
        [nodes[i] EXCEPT !.x = Some((OrZero(@) * t.k) \div 1000 + t.x),
                         !.y = Some((OrZero(@) * t.k) \div 1000 + t.y)]]

\* the node array after g.attr("transform", event.transform)
Zoomed(nodes, t) == nodes

\* the handler of the zoom event that carries the transform t
ZoomEvent(t) ==
    /\ UNCHANGED outside
    /\ simulation.created
    /\ transform' = t
    /\ nodesRef' = Zoomed(nodesRef, t)
    /\ handled' = <<[type |-> "zoom", idx |-> 0]>>
    /\ built' = NoBuild
    /\ reparentCalls' = <<>>
    /\ selectCalls' = <<>>
    /\ UNCHANGED <<clusters, onNoteSelect, onNodeReparent, onReparentRef, closure, linksRef,
                   simulation, drag, hoverTargetRef, highlight, candidates, viewport,
                   orphans>>

Zoom(f) == ZoomEvent([transform EXCEPT !.k = Clamp((transform.k * f.num) \div f.den)])

Pan(to) == ZoomEvent([transform EXCEPT !.x = to.x, !.y = to.y])

\* the container gets another size; the component does not listen to it
Resize(size) ==
    /\ UNCHANGED outside
    /\ size # viewport
    /\ viewport' = size
    /\ handled' = <<>>
    /\ built' = NoBuild
    /\ reparentCalls' = <<>>
    /\ selectCalls' = <<>>
    /\ UNCHANGED <<clusters, onNoteSelect, onNodeReparent, onReparentRef, closure, nodesRef,
                   linksRef, simulation, drag, hoverTargetRef, highlight, candidates,
                   transform, orphans>>

(***************************************************************************)
(* A simulation that no cleanup stopped goes on until its alpha has        *)
(* decayed below alphaMin, which it does once the gesture that holds its   *)
(* alphaTarget up has ended.                                               *)
(***************************************************************************)
OrphanSettles ==
    /\ UNCHANGED outside
    /\ orphans > 0
    /\ drag.stale # <<>> => orphans > 1
    /\ orphans' = orphans - 1
    /\ handled' = <<>>
    /\ built' = NoBuild
    /\ reparentCalls' = <<>>
    /\ selectCalls' = <<>>
    /\ UNCHANGED <<clusters, onNoteSelect, onNodeReparent, onReparentRef, closure, nodesRef,
                   linksRef, simulation, drag, hoverTargetRef, highlight, candidates,
                   viewport, transform>>

Init ==
    /\ clusters = <<>>
    /\ onNoteSelect = "s1"
    /\ onNodeReparent = Undefined
    /\ onReparentRef = Undefined
    /\ closure = [onNoteSelect |-> "s1", onNodeReparent |-> Undefined]
    /\ nodesRef = <<>>
    /\ linksRef = <<>>
    /\ built = NoBuild
    /\ simulation = NoSimulation
    /\ drag = Idle
    /\ hoverTargetRef = Null
    /\ highlight = {}
    /\ reparentCalls = <<>>
    /\ selectCalls = <<>>
    /\ candidates = <<>>
    /\ viewport = [width |-> 800, height |-> 600]
    /\ transform = zoomIdentity
    /\ orphans = 0
    /\ handled = <<>>
    /\ app = [notes |-> 0, clusters |-> <<>>, hasClustered |-> FALSE,
              isProcessing |-> FALSE, isOnline |-> TRUE, searchMode |-> "EXACT",
              searchQuery |-> "", activeNoteId |-> Null, viewMode |-> "editor",
              pending |-> <<>>]
    /\ service = [semanticCache |-> [q \in {"q"} |-> <<>>], inflight |-> <<>>,
                  returned |-> <<>>]
    /\ worker = [cache |-> [u \in {"/app.js", "/cdn/d3.js"} |-> <<>>],
                 working |-> [u \in {"/app.js", "/cdn/d3.js"} |-> <<>>],
                 answer |-> <<>>]

(***************************************************************************)
(* The synchronizer under every tree of SyncTrees.  The ticks sample the   *)
(* motion: a tick puts the node at index i at a point of its own, so that  *)
(* the physical state tells the nodes of a generation apart.  A new tree   *)
(* arrives after the timer of the running simulation has fired.            *)
(***************************************************************************)
SyncPhys(i) == [x |-> 60 * i, y |-> 45 * i, vx |-> i, vy |-> 0 - i]

SyncLayout == [i \in 1..Len(nodesRef) |-> SyncPhys(i)]

NextSync ==
    \/ /\ simulation.running => built = NoBuild
       /\ \E tree \in SyncTrees : SetClusters(tree)
    \/ Tick(SyncLayout)

SpecSync == Init /\ [][NextSync]_vars

(***************************************************************************)
(* Claims about the synchronizer, checked under SpecSync.                  *)
(***************************************************************************)
Phys(node) == <<node.x, node.y, node.vx, node.vy>>

Unseeded == <<None, None, None, None>>

Rebuilt == built # NoBuild

IdsOf(nodes) == {nodes[i].id : i \in 1..Len(nodes)}

OfType(nodes, type) == {i \in 1..Len(nodes) : nodes[i].type = type}

\* C5 as stated: a rebuild gives each emitted node the x, y, vx, vy of the
\* node(s) of the previous generation with its id, leaves a node without a
\* match unseeded, and so a rebuild of the unchanged tree leaves every node's
\* x, y, vx, vy as they were.
C5Continuity ==
    [][Rebuilt' =>
        /\ \A i \in 1..Len(built'.nodes) :
              LET d == built'.nodes[i]
                  prev == {j \in 1..Len(nodesRef) : nodesRef[j].id = d.id}
              IN  /\ prev = {} => Phys(d) = Unseeded
                  /\ \A j \in prev : Phys(d) = Phys(nodesRef[j])
        /\ clusters' = clusters =>
              /\ Len(built'.nodes) = Len(nodesRef)
              /\ \A i \in 1..Len(nodesRef) : Phys(built'.nodes[i]) = Phys(nodesRef[i])]_vars

\* C6: every generation built from a non-empty tree, also one with duplicate
\* ids or with a cluster or note whose id is 'root', holds exactly one node
\* of type root, and that node has no noteId.
C6OneRoot ==
    /\ Rebuilt =>
          /\ Cardinality(OfType(built.nodes, "root")) = 1
          /\ \A i \in OfType(built.nodes, "root") : built.nodes[i].noteId = Undefined
    /\ simulation.created =>
          /\ Cardinality(OfType(nodesRef, "root")) = 1
          /\ \A i \in OfType(nodesRef, "root") : nodesRef[i].noteId = Undefined

\* a generation was just built from a tree with a cluster and a note both
\* called 'root'
C6Witness ==
    /\ Rebuilt
    /\ \E k \in 1..Len(clusters) :
          /\ clusters[k].id = rootId
          /\ \E j \in 1..Len(clusters[k].children) : clusters[k].children[j].id = rootId

\* C7: a tree with G clusters and L notes gives 1 + G + L nodes (the root, G
\* cluster nodes, L note nodes) and G + L links (G from the root to a
\* cluster, L from a cluster to a note), and each note has a node carrying
\* its noteId and the id of the cluster it is listed under.
C7Counts ==
    Rebuilt =>
        LET G == NumGroups(clusters)
            L == NumLeaves(clusters)
            nodes == built.nodes
            links == built.links
            fromRoot == {i \in 1..Len(links) : links[i].source = rootId}
        IN  /\ Len(nodes) = 1 + G + L
            /\ Cardinality(OfType(nodes, "root")) = 1
            /\ Cardinality(OfType(nodes, "cluster")) = G
            /\ Cardinality(OfType(nodes, "note")) = L
            /\ Len(links) = G + L
            /\ \A k \in 1..Len(clusters) :
                  /\ \E i \in fromRoot : links[i].target = clusters[k].id
                  /\ \A j \in 1..Len(clusters[k].children) :
                        LET note == clusters[k].children[j]
                        IN  /\ \E i \in OfType(nodes, "note") :
                                  /\ nodes[i].id = note.id
                                  /\ nodes[i].noteId = note.noteId
                                  /\ nodes[i].originalClusterId = clusters[k].id
                            /\ \E i \in 1..Len(links) :
                                  /\ links[i].source = clusters[k].id
                                  /\ links[i].target = note.id
            /\ Cardinality({i \in 1..Len(links) :
                              \E k \in 1..Len(clusters) :
                                  /\ links[i].source = clusters[k].id
                                  /\ \E j \in 1..Len(clusters[k].children) :
                                        links[i].target = clusters[k].children[j].id}) >= L

\* one cluster with two notes was just built: 4 nodes and 3 links
C7Witness ==
    /\ Rebuilt
    /\ NumGroups(clusters) = 1
    /\ NumLeaves(clusters) = 2
    /\ Len(built.nodes) = 4
    /\ Len(built.links) = 3

\* C8: in every generation handed to the simulation both endpoints of every
\* link are ids of nodes of that generation; forceLink finds a node for each.
C8Endpoints ==
    /\ Rebuilt =>
          \A i \in 1..Len(built.links) :
              /\ built.links[i].source \in IdsOf(built.nodes)
              /\ built.links[i].target \in IdsOf(built.nodes)
    /\ \A i \in 1..Len(linksRef) :
          /\ linksRef[i].source \in 1..Len(nodesRef)
          /\ linksRef[i].target \in 1..Len(nodesRef)

\* a generation with links to notes was handed to the simulation
C8Witness ==
    /\ Rebuilt
    /\ simulation.running
    /\ \E i \in 1..Len(linksRef) : nodesRef[linksRef[i].target].type = "note"

\* C9: in every generation the originalClusterId of every note node is the
\* id of a node of type cluster of the same generation.
C9OriginExists ==
    /\ Rebuilt =>
          \A i \in OfType(built.nodes, "note") :
              \E j \in OfType(built.nodes, "cluster") :
                  built.nodes[j].id = built.nodes[i].originalClusterId
    /\ \A i \in OfType(nodesRef, "note") :
          \E j \in OfType(nodesRef, "cluster") :
              nodesRef[j].id = nodesRef[i].originalClusterId

\* a generation holds a note listed under one cluster and called like another
C9Witness ==
    /\ Rebuilt
    /\ \E i \in OfType(nodesRef, "note") :
          /\ nodesRef[i].id # nodesRef[i].originalClusterId
          /\ \E j \in OfType(nodesRef, "cluster") : nodesRef[j].id = nodesRef[i].id

\* C10 as stated: in every generation no two nodes share an id, also when
\* ids collide in the tree.
C10UniqueIds ==
    Rebuilt =>
        \A i, j \in 1..Len(built.nodes) :
            i # j => built.nodes[i].id # built.nodes[j].id

\* the places, in the link array, of the links from the root to a cluster
RootEdges(tree) == {1 + Len(NewLinks(SubSeq(tree, 1, k - 1))) : k \in 1..Len(tree)}

\* C11 as stated: in every generation, for every tree, forceLink gives every
\* link from the root to a cluster the distance 120 and every link from a
\* cluster to a note the distance 60.
C11Distances ==
    Rebuilt =>
        \A i \in 1..Len(linksRef) :
            LinkDistance(nodesRef, linksRef[i])
                = IF i \in RootEdges(clusters) THEN 120 ELSE 60

(***************************************************************************)
(* The drag gesture controller.  Its trees hold the cluster 'a' with the   *)
(* note 'n', followed by the clusters of one of TargetSeqs: none, one,     *)
(* two with the same id, two with different ids, one with the id of the    *)
(* note, and two of which the last has the empty id; one more tree holds   *)
(* a note without noteId.  The ticks sample  *)
(* the motion: a tick puts the node at index i at DragPhys(i), 100 apart   *)
(* on a line, and the pointer visits PointerPositions: 50 from the nodes   *)
(* at indexes 4 and 5, exactly 75 from the node at index 4, and 40 from    *)
(* the node at index 4 alone.                                              *)
(***************************************************************************)
TargetSeqs == {<<>>, <<"b">>, <<"b", "b">>, <<"b", "c">>, <<"n">>, <<"b", "">>}

DragItems(hasNoteId, targets) ==
    <<[kind |-> "cluster", id |-> "a", flag |-> TRUE],
      [kind |-> "note", id |-> "n", flag |-> hasNoteId]>>
        \o [k \in 1..Len(targets) |-> [kind |-> "cluster", id |-> targets[k], flag |-> TRUE]]

DragTrees ==
    {Nest(DragItems(TRUE, targets)) : targets \in TargetSeqs}
        \cup {Nest(DragItems(FALSE, <<"b">>))}

DragPhys(i) == [x |-> 100 * i, y |-> 0, vx |-> 1, vy |-> 0 - 1]

DragLayout == [i \in 1..Len(nodesRef) |-> DragPhys(i)]

OverTwo == [x |-> 450, y |-> 0]

OnLimit == [x |-> 445, y |-> 60]

OverOne == [x |-> 360, y |-> 0]

PointerPositions == {OverTwo, OnLimit, OverOne}

ReparentCallbacks == {Undefined, "r1"}

Next ==
    \/ /\ drag.phase = "idle"
       /\ \E tree \in DragTrees : SetClusters(tree)
    \/ Tick(DragLayout)
    \/ \E cb \in ReparentCallbacks : SetOnNodeReparent(cb)
    \/ \E i \in 1..Len(nodesRef) : DragStart(i)
    \/ \E p \in PointerPositions : DragMove(p)
    \/ DragEnd

Spec == Init /\ [][Next]_vars

(***************************************************************************)
(* The drag of a note across rebuilds: the clusters prop may change while  *)
(* the gesture is in progress, which replaces the live node array and      *)
(* leaves the gesture with the object of the earlier generation.  A new    *)
(* tree arrives after the simulation of the last one has ticked.           *)
(***************************************************************************)
NextRebuild ==
    \/ /\ simulation.running => built = NoBuild
       /\ \E tree \in DragTrees : SetClusters(tree)
    \/ Tick(DragLayout)
    \/ \E cb \in ReparentCallbacks : SetOnNodeReparent(cb)
    \/ \E i \in 1..Len(nodesRef) : nodesRef[i].type = "note" /\ DragStart(i)
    \/ \E p \in {OverTwo, OnLimit} : DragMove(p)
    \/ DragEnd

SpecRebuild == Init /\ [][NextRebuild]_vars

(***************************************************************************)
(* The callbacks: both props may be replaced at any time, the re-parent    *)
(* callback may also be removed, and nodes are clicked and dragged.  The   *)
(* trees hold the cluster 'a' with the note 'n', with and without noteId,  *)
(* and the cluster 'b'; the pointer goes over 'b'.                         *)
(***************************************************************************)
CallbackTrees == {Nest(DragItems(hasNoteId, <<"b">>)) : hasNoteId \in BOOLEAN}

AllReparentCallbacks == {Undefined, "r1", "r2"}

SelectCallbacks == {"s1", "s2"}

NextCallbacks ==
    \/ /\ drag.phase = "idle"
       /\ \E tree \in CallbackTrees : SetClusters(tree)
    \/ Tick(DragLayout)
    \/ \E cb \in AllReparentCallbacks : SetOnNodeReparent(cb)
    \/ \E cb \in SelectCallbacks : SetOnNoteSelect(cb)
    \/ \E i \in 1..Len(nodesRef) : Click(i)
    \/ \E i \in 1..Len(nodesRef) : DragStart(i)
    \/ DragMove(OverTwo)
    \/ DragEnd

SpecCallbacks == Init /\ [][NextCallbacks]_vars

(***************************************************************************)
(* The viewport: zoom and pan inputs of any magnitude, a container of any  *)
(* size, zero included, and the drag of the note over the cluster 'b'.     *)
(***************************************************************************)
ZoomFactors == {[num |-> 1, den |-> 1000], [num |-> 1, den |-> 2], [num |-> 1000, den |-> 1]}

PanTargets == {[x |-> 0, y |-> 0], [x |-> 50, y |-> 0 - 30]}

ViewportSizes ==
    {[width |-> 800, height |-> 600], [width |-> 0, height |-> 600],
     [width |-> 800, height |-> 0]}

NextViewport ==
    \/ /\ drag.phase = "idle"
       /\ SetClusters(Nest(DragItems(TRUE, <<"b">>)))
    \/ Tick(DragLayout)
    \/ \E size \in ViewportSizes : Resize(size)
    \/ \E f \in ZoomFactors : Zoom(f)
    \/ \E to \in PanTargets : Pan(to)
    \/ \E i \in 1..Len(nodesRef) : nodesRef[i].type = "note" /\ DragStart(i)
    \/ DragMove(OverTwo)
    \/ DragEnd

SpecViewport == Init /\ [][NextViewport]_vars

(***************************************************************************)
(* The life of the simulations: the tree may become empty and non-empty    *)
(* again at any time, also during a gesture, and nodes are dragged in      *)
(* every state the view is left in.                                        *)
(***************************************************************************)
MaxOrphans == 2

LifecycleTrees == {<<>>, Nest(DragItems(TRUE, <<>>)), Nest(DragItems(TRUE, <<"b">>))}

NextLifecycle ==
    \/ \E tree \in LifecycleTrees :
          /\ Len(tree) > 0 /\ Cleanup.running => orphans < MaxOrphans
          /\ SetClusters(tree)
    \/ Tick(DragLayout)
    \/ \E i \in 1..Len(nodesRef) : DragStart(i)
    \/ DragMove(OverTwo)
    \/ DragEnd
    \/ OrphanSettles

SpecLifecycle == Init /\ [][NextLifecycle]_vars

(***************************************************************************)
(* Claims about the drag gesture and the callbacks.                        *)
(***************************************************************************)
GestureEnds == drag.phase = "dragging" /\ drag'.phase = "idle"

ReparentCall(callback, d, id, name) ==
    [callback |-> callback, noteId |-> d.noteId, id |-> id, name |-> name]

\* the release of a drag of a note that has a noteId, a re-parent callback
\* being registered
NoteReleased ==
    /\ GestureEnds
    /\ D.type = "note"
    /\ Truthy(D.noteId)
    /\ Truthy(onNodeReparent)

UniqueIds(nodes) == \A i, j \in 1..Len(nodes) : i # j => nodes[i].id # nodes[j].id

C2NoTarget ==
    [][/\ drag'.phase = "dragging" /\ D'.type # "note" => hoverTargetRef' = Null
       /\ drag.phase = "dragging" /\ D.type # "note" =>
             /\ hoverTargetRef' = Null
             /\ reparentCalls' = <<>>]_vars

\* a cluster is being dragged, has followed the pointer next to another
\* cluster, and the pointer has moved again
C2Witness ==
    /\ drag.phase = "dragging"
    /\ D.type = "cluster"
    /\ D.fx # D.x
    /\ \E c \in Range(InReach(D, nodesRef)) : c.id # D.id

\* C3: the end of a gesture invokes the re-parent callback registered at that
\* moment, whatever callback was registered when the generation was built or
\* when the gesture began, and invokes none when the callback was removed.
C3LatestCallback ==
    [][/\ \A k \in 1..Len(reparentCalls') :
             /\ onNodeReparent # Undefined
             /\ reparentCalls'[k].callback = onNodeReparent
       /\ NoteReleased /\ Truthy(hoverTargetRef) /\ Find(nodesRef, hoverTargetRef) # 0 =>
             reparentCalls' # <<>>]_vars

\* the callback was invoked at the end of a gesture, and it is not the one
\* that was registered when the generation was built
C3Witness ==
    /\ reparentCalls # <<>>
    /\ closure.onNodeReparent # Undefined
    /\ reparentCalls[1].callback # closure.onNodeReparent

\* C4 as stated: a click on a note invokes the selection callback that is
\* registered at the moment of the click, also when it was replaced after
\* the generation was built.
C4CurrentSelect ==
    [][\A k \in 1..Len(selectCalls') : selectCalls'[k].callback = onNoteSelect]_vars

(***************************************************************************)
(* Claims about the viewport, checked under SpecViewport.                  *)
(***************************************************************************)
ZoomHandled == handled # <<>> /\ handled[1].type = "zoom"

\* C12: after every zoom input, whatever its magnitude, and after every
\* sequence of them, the scale of the transform lies within [0.1, 4], that
\* is within 100..4000 thousandths.
C12ScaleWithinExtent == transform.k >= 100 /\ transform.k <= 4000

\* a zoom input has taken the scale to the lower end of the extent
C12Witness == ZoomHandled /\ transform.k = 100

\* C13: a zoom or pan event changes the transform and nothing else: every
\* node keeps its x, y, vx, vy and its pin, hoverTargetRef and the
\* simulation stay as they are, and so does the gesture in progress.
C13ZoomFrame ==
    [][ZoomHandled' =>
          /\ nodesRef' = nodesRef
          /\ linksRef' = linksRef
          /\ hoverTargetRef' = hoverTargetRef
          /\ simulation' = simulation
          /\ drag' = drag
          /\ highlight' = highlight]_vars

\* a zoom or pan event was handled while a pinned note was being dragged over
\* a cluster, and the transform is not the identity
C13Witness ==
    /\ ZoomHandled
    /\ transform # zoomIdentity
    /\ drag.phase = "dragging"
    /\ hoverTargetRef # Null
    /\ \E i \in 1..Len(nodesRef) : nodesRef[i].fx # None

\* C15 as stated: a start with a viewport of zero width or zero height is a
\* no-op, so that no simulation was ever created, and none ticks, for such
\* a viewport.
C15NoStartWithoutArea ==
    simulation.created => simulation.width > 0 /\ simulation.height > 0

(***************************************************************************)
(* Further claims about the drag gesture.                                  *)
(***************************************************************************)
\* what makes a node the node it is: all of it but its physical state
Identity(node) ==
    [id |-> node.id, name |-> node.name, type |-> node.type, noteId |-> node.noteId,
     r |-> node.r, originalClusterId |-> node.originalClusterId]

Identities(nodes) == [i \in 1..Len(nodes) |-> Identity(nodes[i])]

EndHandled == handled # <<>> /\ handled[1].type = "end"

\* C14: no step of a gesture (its start, a pointer-move, a tick in between,
\* its end, also an end that invokes the re-parent callback) changes the id,
\* type or originalClusterId of a node, the node array's members or the link
\* array; only a rebuild does.
C14DragFrame ==
    [][(drag.phase = "dragging" \/ drag'.phase = "dragging") /\ ~Rebuilt' =>
          /\ Identities(nodesRef') = Identities(nodesRef)
          /\ linksRef' = linksRef
          /\ clusters' = clusters]_vars

\* a pointer-up has invoked the re-parent callback for a cluster, and the
\* released note is still listed under its own cluster
C14Witness ==
    /\ EndHandled
    /\ reparentCalls # <<>>
    /\ handled[1].idx # 0
    /\ nodesRef[handled[1].idx].originalClusterId # reparentCalls[1].id
    /\ nodesRef[handled[1].idx].originalClusterId = "a"

\* C16: when the drag of a note ends over a cluster in reach while no
\* re-parent callback is registered, the gesture completes all the same: the
\* note is unpinned, no circle is highlighted, hoverTargetRef is null, the
\* controller is idle, and no callback is invoked.
C16NoCallback ==
    [][/\ EndHandled'
       /\ D.type = "note"
       /\ Truthy(hoverTargetRef)
       /\ candidates # <<>>
       /\ ~Truthy(onNodeReparent)
       => /\ reparentCalls' = <<>>
          /\ highlight' = {}
          /\ hoverTargetRef' = Null
          /\ drag' = Idle
          /\ handled'[1].idx # 0 =>
                /\ nodesRef'[handled'[1].idx].fx = None
                /\ nodesRef'[handled'[1].idx].fy = None]_vars

\* a note with a noteId was released over a cluster in reach with no callback
\* registered
C16Witness ==
    /\ EndHandled
    /\ handled[1].idx # 0
    /\ nodesRef[handled[1].idx].type = "note"
    /\ Truthy(nodesRef[handled[1].idx].noteId)
    /\ candidates # <<>>
    /\ onNodeReparent = Undefined
    /\ reparentCalls = <<>>
    /\ nodesRef[handled[1].idx].fx = None

(***************************************************************************)
(* Claims checked under SpecLifecycle.                                     *)
(***************************************************************************)
Ticking == (IF simulation.running THEN 1 ELSE 0) + orphans

\* C17 as stated: at every moment at most one simulation is ticking; when a
\* generation is built the simulation of the one before has been stopped.
C17OneTicking == Ticking <= 1

\* C18: every pointer-up returns the controller to idle with the dragged
\* node unpinned, no circle highlighted and hoverTargetRef null, whether a
\* cluster was in reach or not; and whenever no gesture is in progress
\* hoverTargetRef is null and no node of the live array is pinned.
C18EndsIdle ==
    /\ [](drag.phase = "idle" =>
            /\ hoverTargetRef = Null
            /\ \A i \in 1..Len(nodesRef) : nodesRef[i].fx = None /\ nodesRef[i].fy = None)
    /\ [][EndHandled' =>
            /\ drag.phase = "dragging"
            /\ drag' = Idle
            /\ highlight' = {}
            /\ hoverTargetRef' = Null
            /\ handled'[1].idx # 0 =>
                  /\ nodesRef'[handled'[1].idx].fx = None
                  /\ nodesRef'[handled'[1].idx].fy = None]_vars

\* a pointer-up has ended the drag of a node that had followed the pointer,
\* with no cluster in reach
C18Witness ==
    /\ EndHandled
    /\ handled[1].idx # 0
    /\ candidates = <<>>
    /\ nodesRef[handled[1].idx].x = Some(OverTwo.x)
    /\ nodesRef[handled[1].idx].fx = None
    /\ nodesRef[handled[1].idx].fy = None

\* C19 as stated: when the tree becomes empty the live arrays hold exactly
\* one node, the root, and no link; nothing of the earlier generation stays.
C19EmptyTree ==
    [][clusters # <<>> /\ clusters' = <<>> =>
          /\ Len(nodesRef') = 1
          /\ nodesRef'[1].type = "root"
          /\ linksRef' = <<>>]_vars

(***************************************************************************)
(* Further claims about the callbacks, checked under SpecCallbacks.        *)
(***************************************************************************)
ClickHandled == handled # <<>> /\ handled[1].type = "click"

\* C20: a click on a node invokes the selection callback exactly once, with
\* the node's noteId, if the node is a note that has a noteId, and not at
\* all if it is a note without noteId, a cluster or the root; nothing but a
\* click invokes the selection callback.
C20ClickSelects ==
    [][/\ selectCalls' # <<>> => ClickHandled'
       /\ ClickHandled' =>
             LET d == nodesRef[handled'[1].idx]
             IN  IF d.type = "note" /\ d.noteId \notin {Undefined, ""}
                    THEN /\ Len(selectCalls') = 1
                         /\ selectCalls'[1].noteId = d.noteId
                    ELSE selectCalls' = <<>>]_vars

\* a note with a noteId was clicked and the callback got its noteId
C20Witness ==
    /\ ClickHandled
    /\ Len(selectCalls) = 1
    /\ nodesRef[handled[1].idx].type = "note"
    /\ selectCalls[1].noteId = nodesRef[handled[1].idx].noteId

(***************************************************************************)
(* Malformed trees: every cluster has the same id, a note has that id or   *)
(* the id 'root', a cluster may have no children list and a note no        *)
(* noteId.                                                                 *)
(***************************************************************************)
MalformedGroupIds == {"a"}

MalformedLeafIds == {"a", "root"}

MalformedTrees == TreesOf(MaxItems, MalformedGroupIds, MalformedLeafIds, BOOLEAN, BOOLEAN)

NextMalformed ==
    \/ /\ simulation.running => built = NoBuild
       /\ \E tree \in MalformedTrees : SetClusters(tree)
    \/ Tick(SyncLayout)

SpecMalformed == Init /\ [][NextMalformed]_vars

C23LastWins ==
    [][Rebuilt' =>
        \A i \in 1..Len(built'.nodes) :
            LET d == built'.nodes[i]
                prev == {j \in 1..Len(nodesRef) : nodesRef[j].id = d.id}
                last == CHOOSE j \in prev : \A k \in prev : k <= j
            IN  prev # {} => Phys(d) = Phys(nodesRef[last])]_vars

\* the root node, first of every generation, was just given the physical
\* state that the last tick gave to a later node of the generation before:
\* that generation held several nodes with the id 'root', and so does this
\* one, each with the same physical state
C23Witness ==
    /\ Rebuilt
    /\ \E k \in 2..Len(built.nodes) :
          /\ Phys(built.nodes[1]) = <<Some(SyncPhys(k).x), Some(SyncPhys(k).y),
                                      Some(SyncPhys(k).vx), Some(SyncPhys(k).vy)>>
          /\ \E i \in 2..Len(built.nodes) :
                /\ built.nodes[i].id = rootId
                /\ Phys(built.nodes[i]) = Phys(built.nodes[1])

(***************************************************************************)
(* The search for the drop target.  The trees hold the cluster 'a' with    *)
(* the note 'n', followed by two clusters with different ids, by two with  *)
(* the same id, by one with the id 'a' again and one more, or by one with  *)
(* the id of the note.  The pointer visits NearFirst, 30 from the node at  *)
(* index 4 and 70 from the node at index 5, OnLimit, exactly 75 from the   *)
(* node at index 4, and OverOwn, 40 from the cluster 'a' at index 2.       *)
(***************************************************************************)
HoverTargetSeqs == {<<"b", "c">>, <<"b", "b">>, <<"a", "b">>, <<"n">>}

HoverTrees == {Nest(DragItems(TRUE, targets)) : targets \in HoverTargetSeqs}

NearFirst == [x |-> 430, y |-> 0]

OverOwn == [x |-> 240, y |-> 0]

HoverPositions == {NearFirst, OnLimit, OverOwn}

NextHover ==
    \/ /\ drag.phase = "idle"
       /\ \E tree \in HoverTrees : SetClusters(tree)
    \/ Tick(DragLayout)
    \/ \E i \in 1..Len(nodesRef) : DragStart(i)
    \/ \E p \in HoverPositions : DragMove(p)
    \/ DragEnd

SpecHover == Init /\ [][NextHover]_vars

(***************************************************************************)
(* Claims about the pointer-move, checked under SpecHover.                 *)
(***************************************************************************)
MoveHandled == handled # <<>> /\ handled[1].type = "move"

\* the square of the distance between the nodes a and b
SquaredDistance(a, b) ==
    (OrZero(a.x) - OrZero(b.x)) * (OrZero(a.x) - OrZero(b.x))
        + (OrZero(a.y) - OrZero(b.y)) * (OrZero(a.y) - OrZero(b.y))

\* C24: after every pointer-move of the drag of a note, hoverTargetRef is
\* null or the id of a node of type cluster whose id is not the note's
\* originalClusterId and whose distance to the note is strictly below 50
\* plus its radius; a cluster at exactly that distance, and the note's own
\* cluster at any distance, do not make it the target.
C24HoverTarget ==
    [][MoveHandled' /\ D.type = "note" =>
          /\ hoverTargetRef' # D.originalClusterId
          /\ \/ hoverTargetRef' = Null
             \/ \E i \in OfType(nodesRef, "cluster") :
                   /\ nodesRef[i].id = hoverTargetRef'
                   /\ nodesRef[i].id # D.originalClusterId
                   /\ SquaredDistance(D, nodesRef[i])
                         < (50 + nodesRef[i].r) * (50 + nodesRef[i].r)]_vars

\* a pointer-move has found a dragged note closer than 50 plus the radius to
\* the cluster it is listed under, and has left hoverTargetRef null
C24Witness ==
    /\ MoveHandled
    /\ handled[1].idx # 0
    /\ nodesRef[handled[1].idx].type = "note"
    /\ hoverTargetRef = Null
    /\ \E i \in OfType(nodesRef, "cluster") :
          /\ nodesRef[i].id = nodesRef[handled[1].idx].originalClusterId
          /\ SquaredDistance(nodesRef[handled[1].idx], nodesRef[i])
                < (50 + nodesRef[i].r) * (50 + nodesRef[i].r)

\* the indexes of the candidates of the dragged note d among nodes: the
\* nodes of type cluster with an id other than d.originalClusterId that are
\* closer to d than 50 plus their radius
CandidatesOf(d, nodes) ==
    {i \in OfType(nodes, "cluster") :
        /\ nodes[i].id # d.originalClusterId
        /\ SquaredDistance(d, nodes[i]) < (50 + nodes[i].r) * (50 + nodes[i].r)}

\* C25: a pointer-move of the drag of a note with one or several candidates
\* records the id of the candidate that comes last in the node array,
\* whichever is nearest; a pointer-move with no candidate sets hoverTargetRef
\* to null, whatever an earlier move had recorded.
C25LastCandidate ==
    [][MoveHandled' /\ D.type = "note" =>
          LET q == CandidatesOf(D, nodesRef)
              last == CHOOSE i \in q : \A j \in q : j <= i
          IN  hoverTargetRef' = IF q = {} THEN Null ELSE nodesRef[last].id]_vars

\* a pointer-move has found two candidates with different ids, the first of
\* them nearer to the note than the second, and has recorded the second
C25Witness ==
    /\ MoveHandled
    /\ handled[1].idx # 0
    /\ nodesRef[handled[1].idx].type = "note"
    /\ \E i, j \in CandidatesOf(nodesRef[handled[1].idx], nodesRef) :
          /\ i < j
          /\ nodesRef[i].id # nodesRef[j].id
          /\ SquaredDistance(nodesRef[handled[1].idx], nodesRef[i])
                < SquaredDistance(nodesRef[handled[1].idx], nodesRef[j])
          /\ hoverTargetRef = nodesRef[j].id

\* C26 as stated: after every pointer-move of a drag the highlighted circles
\* are exactly the hover target, the last candidate of that move: none when
\* there is no candidate or when the dragged node is not a note, and
\* otherwise that one cluster and nothing else.
C26HighlightIsTarget ==
    [][MoveHandled' =>
          LET q == IF D.type = "note" THEN CandidatesOf(D, nodesRef) ELSE {}
              last == CHOOSE i \in q : \A j \in q : j <= i
          IN  highlight' = IF q = {} THEN {} ELSE {last}]_vars

(***************************************************************************)
(* Claims about the pin, checked under SpecHover.                          *)
(***************************************************************************)
GestureStarts == drag.phase = "idle" /\ drag'.phase = "dragging"

\* C27: a pointer-down on any node pins the node where it is (fx = x and
\* fy = y, x and y as they were), pins no other node and leaves
\* hoverTargetRef null; every later pointer-move puts the pin of the dragged
\* node on the pointer of that move and leaves the node's x and y to the
\* simulation.
C27PinFollowsPointer ==
    [][/\ GestureStarts =>
             /\ drag'.idx \in 1..Len(nodesRef)
             /\ hoverTargetRef' = Null
             /\ \A i \in 1..Len(nodesRef) :
                   nodesRef'[i] = IF i = drag'.idx
                                     THEN [nodesRef[i] EXCEPT !.fx = nodesRef[i].x,
                                                              !.fy = nodesRef[i].y]
                                     ELSE nodesRef[i]
       /\ MoveHandled' =>
             /\ D'.fx = Some(handled'[1].x)
             /\ D'.fy = Some(handled'[1].y)
             /\ D'.x = D.x /\ D'.y = D.y]_vars

\* a node that the simulation had placed and the pointer-down had pinned
\* there has its pin on the pointer of the last move, away from where it is
C27Witness ==
    /\ MoveHandled
    /\ handled[1].idx # 0
    /\ LET d == nodesRef[handled[1].idx]
       IN  /\ d.x = Some(DragPhys(handled[1].idx).x)
           /\ d.y = Some(DragPhys(handled[1].idx).y)
           /\ d.fx = Some(handled[1].x)
           /\ d.fy = Some(handled[1].y)
           /\ d.fy # d.y

\* a step of the running simulation's timer that moves a node or alpha: no
\* other step leaves the tree and the gesture as they are and changes the
\* node array or the simulation without building a generation
TickTaken ==
    /\ simulation.running
    /\ handled' = <<>>
    /\ built' = NoBuild
    /\ drag' = drag
    /\ clusters' = clusters
    /\ nodesRef' # nodesRef \/ simulation' # simulation

\* C28: handlers and ticks run one after the other.  Between any two of them
\* every node has both coordinates of its pin or none.  The tick that
\* follows a pointer-move finds the dragged node pinned on the pointer of
\* that move in both coordinates and puts it there; the tick that follows a
\* pointer-up finds the released node without pin.  Every tick puts every
\* pinned node on its pin, with velocity 0, and changes no pin.
C28PinsNeverTorn ==
    /\ [](\A i \in 1..Len(nodesRef) : nodesRef[i].fx = None <=> nodesRef[i].fy = None)
    /\ [][TickTaken =>
            /\ \A i \in 1..Len(nodesRef) :
                  /\ nodesRef'[i].fx = nodesRef[i].fx
                  /\ nodesRef'[i].fy = nodesRef[i].fy
                  /\ nodesRef[i].fx # None =>
                        /\ nodesRef'[i].x = nodesRef[i].fx
                        /\ nodesRef'[i].y = nodesRef[i].fy
                        /\ nodesRef'[i].vx = Some(0)
                        /\ nodesRef'[i].vy = Some(0)
            /\ MoveHandled /\ handled[1].idx # 0 =>
                  /\ nodesRef[handled[1].idx].fx = Some(handled[1].x)
                  /\ nodesRef[handled[1].idx].fy = Some(handled[1].y)
                  /\ nodesRef'[handled[1].idx].x = Some(handled[1].x)
                  /\ nodesRef'[handled[1].idx].y = Some(handled[1].y)
            /\ EndHandled /\ handled[1].idx # 0 =>
                  /\ nodesRef[handled[1].idx].fx = None
                  /\ nodesRef[handled[1].idx].fy = None]_vars

\* a tick has put the dragged node on the pin that pointer-moves had put
\* away from where the simulation would have it, in both coordinates
C28Witness ==
    /\ drag.phase = "dragging"
    /\ drag.stale = <<>>
    /\ handled = <<>>
    /\ D.fx = D.x
    /\ D.fy = D.y
    /\ D.x # Some(DragPhys(drag.idx).x)
    /\ D.y # Some(DragPhys(drag.idx).y)
    /\ D.vx = Some(0)

(***************************************************************************)
(* Claims about the reheating, checked under SpecRebuild.                  *)
(***************************************************************************)
\* C29 as stated: the alphaTarget of the live simulation is 0.3 exactly while
\* a gesture is in progress and 0 otherwise; the pointer-down raises it and
\* sets the simulation running, the pointer-up resets it, and no other
\* event changes it.
C29AlphaTargetTracksDrag ==
    [][/\ simulation'.alphaTarget = IF drag'.phase = "dragging" THEN 3 ELSE 0
       /\ GestureStarts => simulation'.running
       /\ simulation'.alphaTarget # simulation.alphaTarget =>
             GestureStarts \/ GestureEnds]_vars

(***************************************************************************)
(* The settling of the simulation.  The tree may change at any time, as    *)
(* under SpecLifecycle, and the timer of a running simulation fires: d3's  *)
(* timer calls step on every animation frame until it is stopped.          *)
(***************************************************************************)
SpecSettle == Init /\ [][NextLifecycle]_vars /\ WF_vars(Tick(DragLayout))

\* C30: if from some point on no gesture is in progress and no generation
\* is built, the simulation comes to rest: its timer stops for good, and
\* unless the tree was emptied, which stops it at once, that is because its
\* alpha has fallen below alphaMin.  While a gesture holds alphaTarget at 0.3
\* and the tree stays as it is, no step stops the running simulation, and
\* every tick leaves it running with alpha at 0.3.
C30Settles ==
    /\ <>[](drag.phase = "idle" /\ ~Rebuilt) =>
           <>[](~simulation.running /\ (clusters # <<>> => simulation.alpha < alphaMin))
    /\ [][/\ drag.phase = "dragging"
          /\ simulation.alphaTarget = 3
          /\ simulation.running
          /\ clusters' = clusters
          /\ ~Rebuilt'
          => /\ simulation'.running
             /\ TickTaken => simulation'.alpha = 3]_vars

\* the simulation of a generation has come to rest after a gesture: no
\* gesture is in progress, alpha is below alphaMin and the timer is stopped
C30Witness ==
    /\ drag.phase = "idle"
    /\ clusters # <<>>
    /\ simulation.created
    /\ ~simulation.running
    /\ simulation.alpha < alphaMin
    /\ candidates # <<>>

(***************************************************************************)
(* Claims about gestures across rebuilds, checked under SpecRebuild.       *)
(***************************************************************************)
\* C31 as stated: whenever the re-parent callback is invoked, its second and
\* third arguments are the id and the name of one node of type cluster of
\* the generation live at the release, and that node is not the cluster the
\* dragged note is listed under; also when ids collide in the tree and when
\* a rebuild came between the last pointer-move and the pointer-up.
C31TargetIsGroup ==
    [][\A k \in 1..Len(reparentCalls') :
          \E i \in OfType(nodesRef, "cluster") :
              /\ nodesRef[i].id = reparentCalls'[k].id
              /\ nodesRef[i].name = reparentCalls'[k].name
              /\ nodesRef[i].id # D.originalClusterId]_vars

\* the target a pointer-move would record in this state
WouldRecord ==
    IF drag.phase = "dragging" /\ LooksForTarget(D)
        THEN Scan(D, nodesRef, Len(nodesRef))
        ELSE Null

SameGesture == drag.phase = "dragging" /\ drag'.phase = "dragging"

\* C32 as stated: the target a pointer-move records depends on the positions
\* the last tick left (x, y), never on the pointer (fx, fy): within a gesture
\* every step that is not a tick, a pointer-move or anything else, leaves the
\* target the next pointer-move records as it was, so two pointer-moves with
\* no tick between them record the same target.
C32OnlyTicksChangeTarget ==
    [][/\ MoveHandled' /\ SameGesture => hoverTargetRef' = WouldRecord
       /\ SameGesture /\ ~TickTaken => WouldRecord' = WouldRecord]_vars

\* C32 amended: the same for every step of a gesture that is neither a tick
\* nor a rebuild of the graph.
C32TicksAndRebuildsChangeTarget ==
    [][/\ MoveHandled' /\ SameGesture => hoverTargetRef' = WouldRecord
       /\ SameGesture /\ ~TickTaken /\ ~Rebuilt' => WouldRecord' = WouldRecord]_vars

\* a pointer-move has recorded a target for a note whose pin, the pointer,
\* is somewhere else than the position the target was computed from
C32Witness ==
    /\ MoveHandled
    /\ drag.phase = "dragging"
    /\ D.type = "note"
    /\ hoverTargetRef # Null
    /\ D.fx # D.x

(***************************************************************************)
(* Claims about stopped simulations and pins, checked under SpecLifecycle  *)
(* and SpecRebuild.                                                        *)
(***************************************************************************)
\* the tree is empty and the simulation of the last generation, which the
\* cleanup stopped when the tree became empty, is not running
StoppedByCleanup == clusters = <<>> /\ simulation.created /\ ~simulation.running

\* C33 as stated: a simulation that has been stopped because the tree
\* changed or became empty is not restarted by any pointer event: as long as
\* the tree stays as it is the simulation stays stopped, and so it never
\* ticks again.
C33StoppedStaysStopped ==
    [][StoppedByCleanup /\ clusters' = clusters
           => ~simulation'.running /\ ~TickTaken]_vars

NonePinned(nodes) == \A i \in 1..Len(nodes) : nodes[i].fx = None /\ nodes[i].fy = None

\* the gesture in progress began on a node of a generation that a rebuild
\* has replaced since
OldDrag == drag.phase = "dragging" /\ drag.stale # <<>>

\* C34: pins are not carried across generations.  Right after a rebuild,
\* also one during a drag that holds a node of the generation before pinned,
\* no node of the new generation is pinned; no node of it is pinned as long
\* as that old drag lasts, and the pointer-moves and the pointer-up of the old
\* drag leave the new node array as it is.
C34PinsStayBehind ==
    /\ [](Rebuilt => NonePinned(nodesRef))
    /\ [](OldDrag => NonePinned(nodesRef))
    /\ [][OldDrag /\ (MoveHandled' \/ EndHandled') => nodesRef' = nodesRef]_vars

\* a pointer-move of an old drag: the node it began on is pinned, and the new
\* generation has a node with that node's id
C34Witness ==
    /\ OldDrag
    /\ MoveHandled
    /\ D.fx # None
    /\ D.id \in IdsOf(nodesRef)

(***************************************************************************)
(* The App component (src/App.tsx 202-407).  app.notes counts the changes  *)
(* of the membership of the note list (MOCK_NOTES is list 0); app.clusters *)
(* is <<>> for no tree and <<v>> for the tree the model returned for note  *)
(* list v.  A handler reads the state of the last render; what it does     *)
(* after an await it does with the values its closure held when it was     *)
(* called, which app.pending keeps for each request awaited: the operation,*)
(* the note list it was called with and the hasClustered it saw.  React    *)
(* runs the state updates of one handler in one batch, and the effects of  *)
(* the render that follows have run before the next event is handled.      *)
(***************************************************************************)
MaxEdits == 2

MaxPending == 2

view == <<clusters, onNoteSelect, onNodeReparent, onReparentRef, closure, nodesRef,
          linksRef, built, simulation, drag, hoverTargetRef, highlight,
          reparentCalls, selectCalls, candidates, viewport, transform, orphans,
          handled>>

\* the request the handler op awaits, with what its closure holds
Awaited(op) == [op |-> op, notes |-> app.notes, hasClustered |-> app.hasClustered]

\* the requests awaited, without the one at index k
Others(k) == [j \in 1..(Len(app.pending) - 1) |->
                 IF j < k THEN app.pending[j] ELSE app.pending[j + 1]]

\* if (hasClustered) { setHasClustered(false); setClusters([]); } as seen by a
\* handler whose closure holds hasClustered = seen, applied to the state a
InvalidateClusters(a, seen) ==
    IF seen THEN [a EXCEPT !.hasClustered = FALSE, !.clusters = <<>>] ELSE a

\* window 'online'
handleOnline ==
    /\ app' = [app EXCEPT !.isOnline = TRUE]
    /\ UNCHANGED <<view, service, worker>>

\* Variant of handleOffline that leaves the search mode as it is; C37 must
\* tell it from the code.
handleOfflineKeepsMode ==
    /\ app' = [app EXCEPT !.isOnline = FALSE]
    /\ UNCHANGED <<view, service, worker>>

\* window 'offline'
handleOffline ==
    /\ app' = [app EXCEPT !.isOnline = FALSE, !.searchMode = "EXACT"]
    /\ UNCHANGED <<view, service, worker>>

\* the buttons Exact and AI Hybrid; the latter is disabled while offline
setSearchMode(mode) ==
    /\ mode = "HYBRID" => app.isOnline
    /\ app' = [app EXCEPT !.searchMode = mode]
    /\ UNCHANGED <<view, service, worker>>

\* onChange of the search input
setSearchQuery(q) ==
    /\ q # app.searchQuery
    /\ app' = [app EXCEPT !.searchQuery = q]
    /\ UNCHANGED <<view, service, worker>>

\* handleSearch as the last render built it.  An exact search runs to its
\* finally block without an await; a semantic one awaits the model.
handleSearch ==
    LET a == IF ~app.isOnline /\ app.searchMode # "EXACT"
                THEN [app EXCEPT !.searchMode = "EXACT"] ELSE app
    IN  /\ app' = IF app.searchQuery = "" THEN app
                  ELSE IF app.searchMode = "EXACT"
                          THEN [a EXCEPT !.isProcessing = FALSE]
                          ELSE [a EXCEPT !.isProcessing = TRUE,
                                         !.pending = Append(@, Awaited("search"))]
        /\ UNCHANGED <<view, service, worker>>

\* the timer of the debounce effect fires: it was set by the last render, and
\* only if that render had the mode EXACT
DebouncedSearch ==
    /\ app.searchMode = "EXACT"
    /\ app.searchQuery # ""
    /\ handleSearch

\* Enter in the search input
triggerSemanticSearch ==
    /\ app.searchMode # "EXACT" /\ app.isOnline
    /\ Len(app.pending) < MaxPending
    /\ handleSearch

\* the button Cluster AI, disabled while status.isProcessing or offline
handleCluster ==
    /\ ~app.isProcessing /\ app.isOnline
    /\ Len(app.pending) < MaxPending
    /\ app' = [app EXCEPT !.isProcessing = TRUE, !.pending = Append(@, Awaited("cluster"))]
    /\ UNCHANGED <<view, service, worker>>

\* onUpload of the upload modal, with at least one file to read
processFiles ==
    /\ Len(app.pending) < MaxPending
    /\ app' = [app EXCEPT !.isProcessing = TRUE, !.pending = Append(@, Awaited("import"))]
    /\ UNCHANGED <<view, service, worker>>

\* the button New Note
handleCreateNote ==
    /\ app.notes < MaxEdits
    /\ app' = InvalidateClusters([app EXCEPT !.notes = @ + 1, !.activeNoteId = "k1",
                                             !.viewMode = "editor"],
                                 app.hasClustered)
    /\ UNCHANGED <<view, service, worker>>

\* the delete button of the note id, confirmed in the dialog or not
handleDeleteNote(id, confirmed) ==
    /\ app.notes < MaxEdits
    /\ app' = IF confirmed
                 THEN InvalidateClusters(
                          [app EXCEPT !.notes = @ + 1,
                                      !.activeNoteId = IF @ = id THEN Null ELSE @],
                          app.hasClustered)
                 ELSE app
    /\ UNCHANGED <<view, service, worker>>

\* the button AI Fix Grammar, disabled while status.isProcessing
handleAICorrect ==
    /\ ~app.isProcessing
    /\ app.activeNoteId # Null /\ app.isOnline
    /\ Len(app.pending) < MaxPending
    /\ app' = [app EXCEPT !.isProcessing = TRUE, !.pending = Append(@, Awaited("correct"))]
    /\ UNCHANGED <<view, service, worker>>

\* the request at index k of app.pending settles, fulfilled (ok) or rejected,
\* and the handler that awaits it runs to its end; an import that is fulfilled
\* has read at least one note
Settled(k, ok) ==
    LET r == app.pending[k]
        a == [app EXCEPT !.pending = Others(k), !.isProcessing = FALSE]
    IN  /\ r.op = "import" /\ ok => app.notes < MaxEdits
        /\ app' = IF ~ok \/ r.op \in {"search", "correct"} THEN a
                  ELSE IF r.op = "cluster"
                          THEN [a EXCEPT !.clusters = <<r.notes>>, !.hasClustered = TRUE,
                                         !.viewMode = "graph"]
                          ELSE InvalidateClusters([a EXCEPT !.notes = @ + 1], r.hasClustered)
        /\ UNCHANGED <<view, service, worker>>

NextApp ==
    \/ handleOnline
    \/ handleOffline
    \/ \E mode \in {"EXACT", "HYBRID"} : setSearchMode(mode)
    \/ \E q \in {"", "q"} : setSearchQuery(q)
    \/ DebouncedSearch
    \/ triggerSemanticSearch
    \/ handleCluster
    \/ processFiles
    \/ handleCreateNote
    \/ \E id \in {"k1", "k2"}, confirmed \in BOOLEAN : handleDeleteNote(id, confirmed)
    \/ handleAICorrect
    \/ \E k \in 1..Len(app.pending), ok \in BOOLEAN : Settled(k, ok)

SpecApp == Init /\ [][NextApp]_vars

\* C35 as stated: a cluster tree computed from an earlier note list is
\* discarded when the list changes by create, import or delete: whenever
\* there is a tree or hasClustered is true, the tree is the one computed from
\* the note list as it is now, also when a clustering request was awaited at
\* the time of the change.
C35TreeOfCurrentNotes ==
    app.hasClustered \/ app.clusters # <<>> => app.clusters = <<app.notes>>

\* C36 as stated: status.isProcessing is true whenever a search, clustering,
\* import or correction request is awaited, in every interleaving.
C36ProcessingWhileAwaited == app.pending # <<>> => app.isProcessing

SearchesAwaited(a) == Cardinality({k \in 1..Len(a.pending) : a.pending[k].op = "search"})

\* C37: whenever isOnline is false the search mode is EXACT, and a semantic
\* search request is started only while isOnline is true, whatever the order
\* of online and offline events, mode buttons, query edits and Enter.
C37OfflineIsExact ==
    /\ [](~app.isOnline => app.searchMode = "EXACT")
    /\ [][SearchesAwaited(app') > SearchesAwaited(app) => app.isOnline]_vars

\* the view went offline while a semantic search started in hybrid mode was
\* still awaited
C37Witness ==
    /\ ~app.isOnline
    /\ app.searchQuery # ""
    /\ SearchesAwaited(app) > 0

(***************************************************************************)
(* The search service (src/unnamed/part_001).  A note is [id, words]: the  *)
(* query strings its title and content contain; a search result is         *)
(* [id, score], id being the id of its note.  The model's answer to a      *)
(* request is any list of at most MaxRanking entries [id, score].          *)
(***************************************************************************)
MaxRanking == 2

MaxInflight == 2

\* the note lists the searches are called with
NoteLists ==
    LET n1 == [id |-> 1, words |-> {"q"}]
        n2 == [id |-> 2, words |-> {"q", "r"}]
        n3 == [id |-> 3, words |-> {}]
    IN  {<<n1, n2>>, <<n1, n2, n3>>}

\* what JSON.parse of the model's answer can give
Rankings ==
    UNION {[1..n -> [id : {1, 3}, score : {40, 120}]] : n \in 0..MaxRanking}

\* notes the exact search matches, in the order of the list, each with score 100
executeExactSearch(query, notes) ==
    IF query = "" THEN <<>>
    ELSE LET hits == SelectSeq(notes, LAMBDA n : query \in n.words)
         IN  [i \in 1..Len(hits) |-> [id |-> hits[i].id, score |-> 100]]

\* the entries whose note is in the list passed, in their order
hydrateSemanticResults(cached, notes) ==
    SelectSeq(cached, LAMBDA e : \E i \in 1..Len(notes) : notes[i].id = e.id)

\* Array.prototype.sort((a, b) => b.score - a.score): stable, highest first
RECURSIVE SortByScore(_)
SortByScore(s) ==
    IF s = <<>> THEN <<>>
    ELSE LET front == SortByScore(SubSeq(s, 1, Len(s) - 1))
             last == s[Len(s)]
             k == Cardinality({i \in 1..Len(front) : front[i].score >= last.score})
         IN  SubSeq(front, 1, k) \o <<last>> \o SubSeq(front, k + 1, Len(front))

\* semanticSearchWithGemini for the answer raw: the entries with a note of the
\* list, sorted (src/services/geminiService.ts 128-139)
semanticSearchWithGemini(raw, notes) == SortByScore(hydrateSemanticResults(raw, notes))

\* Variant of MapSet that stores an exact result over a semantic one without
\* raising its score; C38 must tell it from the code.
MapSetUnboosted(merged, result, exact) ==
    LET at == {i \in 1..Len(merged) : merged[i].id = result.id}
    IN  IF at = {} THEN Append(merged, result)
        ELSE [merged EXCEPT ![CHOOSE i \in at : TRUE] =
                 IF exact THEN merged[CHOOSE i \in at : TRUE] ELSE result]

\* merged.set(result.note.id, ...) in the two forEach loops: a semantic result
\* replaces the entry of its id, an exact one raises its score to at least 100
MapSet(merged, result, exact) ==
    LET at == {i \in 1..Len(merged) : merged[i].id = result.id}
        Max(a, b) == IF a >= b THEN a ELSE b
    IN  IF at = {} THEN Append(merged, result)
        ELSE [merged EXCEPT ![CHOOSE i \in at : TRUE] =
                 IF exact THEN [@ EXCEPT !.score = Max(@, Max(result.score, 100))]
                 ELSE result]

RECURSIVE SetAll(_, _, _)
SetAll(merged, results, exact) ==
    IF results = <<>> THEN merged
    ELSE SetAll(MapSet(merged, Head(results), exact), Tail(results), exact)

\* what executeHybridSearch returns for these exact and semantic results
Combined(query, notes, exactResults, semanticResults) ==
    <<[query |-> query, exact |-> exactResults, semantic |-> semanticResults,
       combined |-> SortByScore(SetAll(SetAll(<<>>, semanticResults, FALSE),
                                       exactResults, TRUE))]>>

\* executeHybridSearch up to the end of the call, or up to the model request
\* of fetchSemanticResults if the query is not in semanticCache
executeHybridSearch(query, notes, mode, onLine) ==
    LET exact == IF mode = "SEMANTIC" THEN <<>> ELSE executeExactSearch(query, notes)
        cached == service.semanticCache[query]
    IN  /\ service' =
               IF ~onLine /\ mode # "SEMANTIC"
                  THEN [service EXCEPT !.returned =
                           <<[query |-> query, semantic |-> <<>>,
                              exact |-> executeExactSearch(query, notes),
                              combined |-> executeExactSearch(query, notes)]>>]
               ELSE IF mode = "EXACT"
                  THEN [service EXCEPT !.returned = Combined(query, notes, exact, <<>>)]
               ELSE IF cached # <<>>
                  THEN [service EXCEPT !.returned =
                           Combined(query, notes, exact,
                                    hydrateSemanticResults(cached[1], notes))]
               ELSE [service EXCEPT !.inflight =
                        Append(@, [query |-> query, notes |-> notes, exact |-> exact])]
        /\ mode # "EXACT" /\ cached = <<>> /\ (onLine \/ mode = "SEMANTIC")
               => Len(service.inflight) < MaxInflight
        /\ UNCHANGED <<view, app, worker>>

\* the model request at index k of service.inflight is fulfilled with raw, or
\* rejected: fetchSemanticResults stores the ranking and the search returns,
\* or the search rejects
RequestSettled(k, raw, ok) ==
    LET r == service.inflight[k]
        rest == [j \in 1..(Len(service.inflight) - 1) |->
                    service.inflight[IF j < k THEN j ELSE j + 1]]
        fresh == semanticSearchWithGemini(raw, r.notes)
    IN  /\ service' =
               IF ok THEN [service EXCEPT !.inflight = rest,
                                          !.semanticCache[r.query] = <<fresh>>,
                                          !.returned = Combined(r.query, r.notes, r.exact, fresh)]
               ELSE [service EXCEPT !.inflight = rest]
        /\ UNCHANGED <<view, app, worker>>

NextSearch ==
    \/ \E query \in DOMAIN service.semanticCache, notes \in NoteLists,
          mode \in {"EXACT", "SEMANTIC", "HYBRID"}, onLine \in BOOLEAN :
              executeHybridSearch(query, notes, mode, onLine)
    \/ \E k \in 1..Len(service.inflight), raw \in Rankings, ok \in BOOLEAN :
          RequestSettled(k, raw, ok)

SpecSearch == Init /\ [][NextSearch]_vars

\* C38: the list executeHybridSearch returns holds each note id at most once,
\* is in order of non-increasing score, holds every note of the exact results
\* and every note of the semantic results, and gives every note of the exact
\* results a score of at least 100.
C38MergedRanking ==
    \A n \in 1..Len(service.returned) :
        LET r == service.returned[n]
            c == r.combined
        IN  /\ \A i, j \in 1..Len(c) : c[i].id = c[j].id => i = j
            /\ \A i, j \in 1..Len(c) : i < j => c[i].score >= c[j].score
            /\ \A i \in 1..Len(r.exact) :
                  \E j \in 1..Len(c) : c[j].id = r.exact[i].id /\ c[j].score >= 100
            /\ \A i \in 1..Len(r.semantic) : \E j \in 1..Len(c) : c[j].id = r.semantic[i].id

\* a search returned a note that both searches found, ranked below 100 by the
\* model, ahead of a note only the exact search found
C38Witness ==
    /\ service.returned # <<>>
    /\ LET r == service.returned[1]
       IN  /\ \E i \in 1..Len(r.semantic), j \in 1..Len(r.exact) :
                  r.semantic[i].id = r.exact[j].id /\ r.semantic[i].score < 100
           /\ Len(r.combined) > Len(r.semantic)

\* C39 as stated allows one model request for each query string, every later
\* call with that query being answered from semanticCache; so a call issues a
\* request for a query only if no request for that query is in flight.
C39OneRequestPerQuery ==
    [][Len(service'.inflight) > Len(service.inflight) =>
          \A k \in 1..Len(service.inflight) :
              service.inflight[k].query # service'.inflight[Len(service'.inflight)].query]_vars

(***************************************************************************)
(* The service worker's fetch listener (src/unnamed/part_000 184-245).  A  *)
(* request is [url, method, cdn], cdn telling whether the host name holds  *)
(* "cdn"; the network rejects the fetch or answers with a response         *)
(* [status, body].  The cache matches a request by its url, for GET only.  *)
(* worker.working keeps, as history, the last response with status 200     *)
(* the listener answered a GET request with.                               *)
(***************************************************************************)
MaxBodies == 2

Requests ==
    {[url |-> "/app.js", method |-> "GET", cdn |-> FALSE],
     [url |-> "/app.js", method |-> "POST", cdn |-> FALSE],
     [url |-> "/cdn/d3.js", method |-> "GET", cdn |-> TRUE]}

\* what fetch(event.request) settles with: <<>> for a rejection
Outcomes == {<<>>} \cup {<<r>> : r \in [status : {200, 500}, body : 1..MaxBodies]}

\* caches.match(event.request)
CacheMatch(request) ==
    IF request.method = "GET" THEN worker.cache[request.url] ELSE <<>>

\* the else branch of the listener: the cache and the answer it leaves
NetworkFirst(request, network) ==
    [cache |-> IF network # <<>> /\ request.method = "GET"
                  THEN [worker.cache EXCEPT ![request.url] = network]
                  ELSE worker.cache,
     answer |-> IF network # <<>> THEN network ELSE CacheMatch(request)]

\* the isCDN branch of the listener; the network is asked only on a miss
CacheFirst(request, network) ==
    IF CacheMatch(request) # <<>>
       THEN [cache |-> worker.cache, answer |-> CacheMatch(request)]
       ELSE [cache |-> IF network # <<>> /\ network[1].status = 200
                             /\ request.method = "GET"
                          THEN [worker.cache EXCEPT ![request.url] = network]
                          ELSE worker.cache,
             answer |-> network]

\* self.addEventListener("fetch", ...) for one request, with the cache.put it
\* starts
Fetch(request, network) ==
    LET done == IF request.cdn THEN CacheFirst(request, network)
                ELSE NetworkFirst(request, network)
    IN  /\ worker' = [cache |-> done.cache,
                      answer |-> done.answer,
                      working |-> IF request.method = "GET" /\ done.answer # <<>>
                                        /\ done.answer[1].status = 200
                                     THEN [worker.working EXCEPT ![request.url] = done.answer]
                                     ELSE worker.working]
        /\ UNCHANGED <<view, app, service>>

NextWorker == \E request \in Requests, network \in Outcomes : Fetch(request, network)

SpecWorker == Init /\ [][NextWorker]_vars

\* C40 as stated: for a GET request that is not for a CDN, the cache holds the
\* last working response served for it, which is what the listener answers
\* with when the network fails; no later error response from the network
\* takes its place in the cache.
C40CacheKeepsWorkingCopy ==
    worker.working["/app.js"] # <<>> => worker.cache["/app.js"] = worker.working["/app.js"]

====
